---- MODULE Spec2Model ----
(***************************************************************************)
(* Model of the attendance WebSocket consumer of SmartAttend               *)
(* (backend/api/consumers.py, class AttendanceConsumer) together with the  *)
(* AttendanceRecord table it writes (backend/api/models.py).               *)
(*                                                                         *)
(* Confidences and thresholds are in hundredths (0.68 is 68, 1 is 100).    *)
(* One consumer instance = one session.  Channels dispatches the messages  *)
(* of one connection to the consumer one after another: the next message   *)
(* is handed to receive() only when the previous handler has returned.     *)
(***************************************************************************)
EXTENDS Integers, Sequences, FiniteSets, TLC

(* ------------------------------ bounds -------------------------------- *)
MaxFaces == 2        \* faces returned by the engine for one frame
MaxFrames == 3       \* frames the client sends in one session (Spec)
MaxMsgs == 3         \* messages the client sends in one session (SpecQueue)
MaxInbox == 2        \* messages waiting for the consumer (SpecQueue)
MaxTime == 3         \* clock ticks (SpecMark)
MaxCalls == 3        \* mark_student_present calls (SpecMark)

(* ------------------------- program constants -------------------------- *)
RECOGNITION_THRESHOLD == 68
SIGHTING_THRESHOLD == 3
MAX_FACES_PER_FRAME == 50
TicksPerDay == 2
TIME_ZONE == 0       \* offset of the active time zone from UTC, in ticks

Students == {1, 2}   \* primary keys of Student rows
Courses == {1, 2}    \* primary keys of Course rows
course_id == 1       \* the course of the session (URL route)

(* ------------------------ the engine's answers ------------------------ *)
\* face_info['student_id'] as the consumer reads it: missing/None, an int,
\* or a string <<"str", numeric, n>>: 'student_<n>' when numeric, else a
\* string whose remainder is not a number.
NoId == <<"none">>
IntId(n) == <<"int", n>>
StrId(n) == <<"str", TRUE, n>>
BadStrId == <<"str", FALSE, 0>>

\* face_info['bbox'] = (x, y, w, h), in pixels
BoxA == <<100, 100, 120, 120>>
BoxNear == <<105, 100, 120, 120>>    \* nearly the place of BoxA
BoxSmall == <<300, 100, 80, 120>>    \* a narrow face elsewhere

\* an entry of the engine's list: bbox says whether the key 'bbox' is there,
\* region is its value
FaceAt(sid, conf, hasBBox, box) ==
    [student_id |-> sid, confidence |-> conf, bbox |-> hasBBox, region |-> box]

Face(sid, conf, hasBBox) == FaceAt(sid, conf, hasBBox, BoxA)

Faces ==
    { Face(StrId(1), 90, TRUE),      \* clear match of student 1
      Face(IntId(2), 90, TRUE),      \* clear match of student 2, id as int
      Face(StrId(1), 32, TRUE),      \* distance exactly at the threshold
      Face(StrId(2), 10, TRUE),      \* distance above the threshold
      Face(NoId, 90, TRUE),          \* no identity matched
      Face(BadStrId, 90, TRUE),      \* identity that is not a number
      Face(StrId(1), 90, FALSE),     \* entry without a bounding box
      FaceAt(IntId(2), 90, TRUE, BoxNear),    \* student 2 where BoxA is
      FaceAt(StrId(1), 90, TRUE, BoxSmall) }  \* student 1, 80 pixels wide

RECURSIVE SeqsUpTo(_, _)
SeqsUpTo(S, n) ==
    IF n = 0 THEN {<<>>}
    ELSE LET shorter == SeqsUpTo(S, n - 1)
         IN shorter \cup {Append(q, x) : q \in {r \in shorter : Len(r) = n - 1}, x \in S}

FrameResults == SeqsUpTo(Faces, MaxFaces)

\* The answers used where a whole session is explored: one face for each
\* effect a face can have on the session (count student 1, count student 2,
\* nothing, exception).
SessionFaces ==
    { Face(StrId(1), 90, TRUE), Face(IntId(2), 90, TRUE),
      Face(StrId(1), 32, TRUE), Face(StrId(1), 90, FALSE) }

SessionFrameResults == SeqsUpTo(SessionFaces, MaxFaces)

(* --------------------------- pure helpers ----------------------------- *)
\* dict.get(k, 0)
Get(d, k) == IF k \in DOMAIN d THEN d[k] ELSE 0

\* d[k] = v
Put(d, k, v) == [x \in DOMAIN d \cup {k} |-> IF x = k THEN v ELSE d[x]]

\* int(student_id.replace('student_', '')) if isinstance(student_id, str)
\* else student_id; ok = FALSE stands for the `continue` on ValueError.
ParseStudentId(sid) ==
    IF sid[1] = "int" THEN [ok |-> TRUE, id |-> sid[2]]
    ELSE IF sid[2] THEN [ok |-> TRUE, id |-> sid[3]]
    ELSE [ok |-> FALSE, id |-> 0]

\* the truth value of student_id in `if student_id and ...`
Truthy(sid) ==
    IF sid[1] = "none" THEN FALSE
    ELSE IF sid[1] = "int" THEN sid[2] # 0
    ELSE TRUE

PassesThreshold_any(conf) == conf >= 0

\* confidence > (1 - self.RECOGNITION_THRESHOLD)
PassesThreshold(conf) == conf > 100 - RECOGNITION_THRESHOLD

ShouldConfirm_off(n) == n >= SIGHTING_THRESHOLD - 1

\* current_sightings >= self.SIGHTING_THRESHOLD
ShouldConfirm(n) == n >= SIGHTING_THRESHOLD

AlreadyConfirmed_never(sid, rec) == FALSE

\* student_id in self.session_recognized_students
AlreadyConfirmed(sid, rec) == sid \in rec

Confirm_replace(rec, sid) == {sid}

\* self.session_recognized_students.add(student_id)
Confirm(rec, sid) == rec \cup {sid}

\* detected_faces[:self.MAX_FACES_PER_FRAME]
Limit(faces) == SubSeq(faces, 1, IF Len(faces) < MAX_FACES_PER_FRAME THEN Len(faces) ELSE MAX_FACES_PER_FRAME)

(* ------------------------------- state -------------------------------- *)
VARIABLES
    session,                      \* "connecting", "ready" or "closed"
    close_code,                   \* code of self.close(code=...), 0 if none
    session_recognized_students,  \* self.session_recognized_students
    session_sighting_counts,      \* self.session_sighting_counts (a dict)
    temp_directory,               \* TRUE once self.temp_directory exists
    inbox,                        \* messages received, not yet handled
    pc,                           \* where the receive handler stands
    newly_confirmed_students,     \* process_frame's local list
    mark_index,                   \* position of the loop of process_frame
    detected_faces,               \* what the engine finds in the frame in hand (SpecFrame)
    faces_done,                   \* loop passes started on detected_faces
    current,                      \* the message in hand
    student_table,                \* ids of the Student rows
    attendance_records,           \* the AttendanceRecord rows
    now,                          \* the clock
    last_created,                 \* `created` of the last get_or_create
    arrived,                      \* history: messages received so far
    qualifying_matches,           \* history: qualifying matches handled, per id
    mark_calls,                   \* history: mark_student_present calls, per (id, course)
    reported,                     \* history: frame_updates naming the id
    marked_days,                  \* history: (student, course, day) marked
    pongs,                        \* history: pong messages sent
    errors_sent,                  \* history: error messages sent
    known_faces_cache,            \* ids with an encoding (self.known_faces_cache)
    frame_updates,                \* history: frame_update messages sent
    accepted,                     \* self.accept() has been called
    group_joined,                 \* the channel is in the group attendance_<course_id>
    session_ready_sent,           \* history: session_ready messages sent
    failure,                      \* history: what connect() failed on, "none" if nothing
    had_error,                    \* history: the handling of some frame has raised
    last_total,                   \* total_recognized_count of the last frame_update sent
    response_failed,              \* history: the last response could not be encoded or sent
    user,                         \* self.user: "none", "anonymous", "teacher" or "other"
    disconnected,                 \* history: how disconnect() went, "no" before it
    media_root,                   \* the temp_session_* directories on disk
    last_answered,                \* history: arrival number of the last frame answered
    peer,                         \* a second consumer instance (SpecPeers)
    callers                       \* get_or_create calls in progress (SpecRace)

vars == <<session, close_code, session_recognized_students, session_sighting_counts,
          temp_directory, inbox, pc, newly_confirmed_students, mark_index,
          detected_faces, faces_done, current, student_table, attendance_records,
          now, last_created, arrived, qualifying_matches,
          mark_calls, reported, marked_days, pongs, errors_sent, known_faces_cache,
          frame_updates, accepted, group_joined, session_ready_sent, failure,
          had_error, last_total, response_failed, user, disconnected, media_root,
          last_answered, peer, callers>>

\* what no handler of this consumer touches
other_vars == <<peer, callers>>

conn_vars == <<accepted, group_joined, session_ready_sent, failure>>

frame_hist == <<had_error, last_total, response_failed>>

session_vars == <<session, close_code, session_recognized_students,
                  session_sighting_counts, temp_directory, inbox, pc,
                  newly_confirmed_students, mark_index, detected_faces, faces_done,
                  current, arrived, qualifying_matches,
                  mark_calls, reported, pongs, errors_sent, known_faces_cache,
                  frame_updates, accepted, group_joined, session_ready_sent, failure,
                  had_error, last_total, response_failed, user, disconnected,
                  media_root, last_answered, peer, callers>>

\* A message: its "type" ("frame" also when the key is absent), for a frame
\* whether the image is "ok", "empty" or "undecodable", and two history
\* fields: late (an earlier frame was still waiting or in hand when it came)
\* and during (where the handler stood when it came); seq is its arrival
\* number.
Message(type, image, late, during, seq) ==
    [type |-> type, image |-> image, late |-> late, during |-> during, seq |-> seq]

NoMessage == Message("none", "none", FALSE, "idle", 0)

MessageKinds ==
    { <<"frame", "ok">>, <<"frame", "empty">>, <<"frame", "undecodable">>,
      <<"ping", "none">>, <<"other", "none">>, <<"badjson", "none">> }

(* ------------------ process_frame_for_recognition --------------------- *)
\* The loop state: the two session collections, the list being built,
\* whether an exception left the loop, and the passes started.
LoopState(rec, cnt) ==
    [rec |-> rec, cnt |-> cnt, newly |-> <<>>, raised |-> FALSE, done |-> 0]

Raise_reset(st) == [st EXCEPT !.raised = TRUE, !.cnt = [s \in {} |-> 0]]

\* an exception leaves the loop for the except at line 264; what the loop
\* has written to the session stays written
Raise(st) == [st EXCEPT !.raised = TRUE]

\* Student.objects.get(id=student_id): raises DoesNotExist for a missing row
Lookup(st, sid, table) == IF sid \in table THEN st ELSE Raise(st)

\* one pass of the loop over detected_faces (consumers.py 190-256)
ProcessFace(f, st0, table) ==
    LET st == [st0 EXCEPT !.done = @ + 1] IN
    IF ~f.bbox THEN Raise(st)                       \* face_info['bbox']: KeyError
    ELSE IF Truthy(f.student_id) /\ PassesThreshold(f.confidence) THEN
        LET parsed == ParseStudentId(f.student_id)
            sid == parsed.id
        IN
        IF ~parsed.ok THEN st                       \* continue
        ELSE IF AlreadyConfirmed(sid, st.rec) THEN Lookup(st, sid, table)
        ELSE
            LET current_sightings == Get(st.cnt, sid) + 1
                counted == [st EXCEPT !.cnt = Put(@, sid, current_sightings)]
            IN  IF ShouldConfirm(current_sightings)
                THEN LET added == [counted EXCEPT !.rec = Confirm(@, sid)]
                     IN  IF sid \in table
                         THEN [added EXCEPT !.newly = Append(@, sid)]
                         ELSE Raise(added)
                ELSE Lookup(counted, sid, table)
    ELSE st                                         \* "Unknown" box only

RECURSIVE ProcessFaces(_, _, _)
ProcessFaces(faces, st, table) ==
    IF faces = <<>> \/ st.raised THEN st
    ELSE ProcessFaces(Tail(faces), ProcessFace(Head(faces), st, table), table)

\* what the function returns as its second component
Returned(st) == IF st.raised THEN <<>> ELSE st.newly

(* ----------------------- mark_student_present ------------------------- *)
\* timezone.now().date(): the UTC day of the clock
Today(t) == t \div TicksPerDay

\* the day the lookup timestamp__date compares: the day in the active zone
DateOf(ts) == (ts + TIME_ZONE) \div TicksPerDay

Matching(rows, s, c, day) ==
    {r \in rows : r.student = s /\ r.course = c /\ DateOf(r.timestamp) = day}

AlwaysInsert(rows, s, c, t, table) ==
    IF s \in table /\ c \in Courses
    THEN [rows |-> rows \cup {[student |-> s, course |-> c, timestamp |-> t]},
          created |-> TRUE]
    ELSE [rows |-> rows, created |-> FALSE]

\* AttendanceRecord.objects.get_or_create(student_id, course_id,
\* timestamp__date=today, defaults={timestamp: now}) inside the try/except
\* of mark_student_present: rows after the call and the `created` flag.
GetOrCreate(rows, s, c, t, table) ==
    LET found == Matching(rows, s, c, Today(t)) IN
    IF Cardinality(found) = 1 THEN [rows |-> rows, created |-> FALSE]
    ELSE IF Cardinality(found) > 1 THEN [rows |-> rows, created |-> FALSE]  \* MultipleObjectsReturned
    ELSE IF s \notin table \/ c \notin Courses THEN [rows |-> rows, created |-> FALSE]  \* IntegrityError
    ELSE IF \E r \in rows : r.student = s /\ r.course = c /\ r.timestamp = t
         THEN [rows |-> rows, created |-> FALSE]    \* unique_together
    ELSE [rows |-> rows \cup {[student |-> s, course |-> c, timestamp |-> t]},
          created |-> TRUE]

(* ------------------------------ actions ------------------------------- *)
Zero == [s \in Students |-> 0]

EmptyDict == [s \in {} |-> 0]

\* self.channel_name, unique for every connection
channel_name == 1
peer_channel_name == 2

\* os.path.join(settings.MEDIA_ROOT, f'temp_session_{self.channel_name}')
TempPath(channel) == <<"temp_session", channel>>

\* the second consumer before its connection
NoPeer ==
    [session |-> "none", rec |-> {}, cnt |-> EmptyDict, cache |-> {},
     temp_directory |-> FALSE, qualifying |-> Zero, frames |-> 0]

\* the two places get_or_create is called from at the same time
Callers == {1, 2}

NoCallers == [p \in Callers |-> [pc |-> "idle", student |-> 0, course |-> 0, t |-> 0]]

Init ==
    /\ session = "connecting"
    /\ close_code = 0
    /\ session_recognized_students = {}
    /\ session_sighting_counts = EmptyDict
    /\ known_faces_cache = {}
    /\ temp_directory = FALSE
    /\ inbox = <<>>
    /\ pc = "idle"
    /\ newly_confirmed_students = <<>>
    /\ mark_index = 1
    /\ detected_faces = <<>>
    /\ faces_done = 0
    /\ current = NoMessage
    /\ student_table = Students
    /\ attendance_records = {}
    /\ now = 0
    /\ last_created = FALSE
    /\ arrived = 0
    /\ qualifying_matches = Zero
    /\ mark_calls = [sc \in Students \X Courses |-> 0]
    /\ reported = Zero
    /\ marked_days = {}
    /\ pongs = 0
    /\ errors_sent = 0
    /\ frame_updates = 0
    /\ accepted = FALSE
    /\ group_joined = FALSE
    /\ session_ready_sent = 0
    /\ failure = "none"
    /\ had_error = FALSE
    /\ last_total = 0
    /\ response_failed = FALSE
    /\ user = "none"
    /\ disconnected = "no"
    /\ media_root = {}
    /\ last_answered = 0
    /\ peer = NoPeer
    /\ callers = NoCallers

PreparedFaces_anyone(teacher_ok, usable) == usable

\* prepare_face_recognition_db: the ids that end up in known_faces_cache.
\* teacher_ok: the course exists and its teacher is the user; usable: the
\* enrolled students with a photo on disk and an extractable encoding.
PreparedFaces(teacher_ok, usable) == IF teacher_ok THEN usable ELSE {}

\* what can raise in connect() once the connection is accepted
ConnectRaises == {"none", "prepare", "group_add"}

SetupFailed_never(cache, raises) == FALSE

\* `if not success`: prepare_face_recognition_db returns False when no
\* encoding was loaded and when something in it raised
SetupFailed(cache, raises) == cache = {} \/ raises = "prepare"

CloseCodeFor_generic(class) == IF class = "auth" THEN 4001 ELSE 4000

\* the code connect() closes with: lines 38, 61 and 82
CloseCodeFor(class) ==
    CASE class = "auth" -> 4001
      [] class = "setup" -> 4004
      [] class = "unexpected" -> 4000

\* connect().  raises = "prepare": an exception inside
\* prepare_face_recognition_db, caught there, after the encodings found so
\* far were stored; raises = "group_add": channel_layer.group_add raises,
\* which the except at line 76 answers with an error message and a close.
Connect(authenticated, teacher_ok, usable, raises) ==
    /\ session = "connecting"
    /\ user' = (IF ~authenticated THEN "anonymous"
                ELSE IF teacher_ok THEN "teacher" ELSE "other")
    /\ IF ~authenticated
       THEN /\ session' = "closed"
            /\ failure' = "auth"
            /\ close_code' = CloseCodeFor("auth")
            /\ UNCHANGED <<known_faces_cache, errors_sent, accepted, group_joined,
                           session_ready_sent>>
       ELSE LET cache == PreparedFaces(teacher_ok, usable) IN
            /\ accepted' = TRUE
            /\ known_faces_cache' = cache
            /\ IF SetupFailed(cache, raises)
               THEN /\ session' = "closed"
                    /\ failure' = "setup"
                    /\ close_code' = CloseCodeFor("setup")
                    /\ errors_sent' = errors_sent + 1
                    /\ UNCHANGED <<group_joined, session_ready_sent>>
               ELSE IF raises # "none"
               THEN /\ session' = "closed"
                    /\ failure' = "unexpected"
                    /\ close_code' = CloseCodeFor("unexpected")
                    /\ errors_sent' = errors_sent + 1
                    /\ UNCHANGED <<group_joined, session_ready_sent>>
               ELSE /\ session' = "ready"
                    /\ group_joined' = TRUE
                    /\ session_ready_sent' = session_ready_sent + 1
                    /\ UNCHANGED <<close_code, errors_sent, failure>>
    /\ UNCHANGED <<session_recognized_students, session_sighting_counts, temp_directory,
                   inbox, pc, newly_confirmed_students, mark_index, detected_faces,
                   faces_done, current, student_table, attendance_records, now,
                   last_created, arrived, qualifying_matches,
                   mark_calls, reported, marked_days, pongs, frame_updates>>
    /\ UNCHANGED <<frame_hist, disconnected, media_root, last_answered, other_vars>>

FrameWaiting == \E i \in 1..Len(inbox) : inbox[i].type = "frame" /\ inbox[i].image = "ok"

\* the client sends a message; Channels queues it for the consumer.
\* The client has at most `window` messages unhandled and sends `limit` in all.
Arrive(kind, window, limit) ==
    /\ session = "ready"
    /\ arrived < limit
    /\ Len(inbox) < window
    /\ inbox' = Append(inbox, Message(kind[1], kind[2], pc # "idle" \/ FrameWaiting, pc, arrived + 1))
    /\ arrived' = arrived + 1
    /\ UNCHANGED <<session, close_code, session_recognized_students,
                   session_sighting_counts, temp_directory, pc, newly_confirmed_students,
                   mark_index, detected_faces, faces_done, current, student_table,
                   attendance_records, now, last_created, qualifying_matches, mark_calls, reported, marked_days, pongs,
                   errors_sent, known_faces_cache, frame_updates>>
    /\ UNCHANGED <<conn_vars, frame_hist, user, disconnected, media_root,
                   last_answered, other_vars>>

NextMessage_last(queue) == queue[Len(queue)]

\* the message the consumer is handed next: the oldest one waiting
NextMessage(queue) == Head(queue)

Decodable_any(m) == m.type = "frame"

\* a frame whose image is not empty (130) and decodes (138)
Decodable(m) == m.type = "frame" /\ m.image = "ok"

\* receive(text_data), up to the first await that leaves the handler
\* waiting: a frame that decodes goes on to recognition, everything else is
\* finished here.
Receive ==
    /\ session = "ready"
    /\ pc = "idle"
    /\ inbox # <<>>
    /\ LET m == NextMessage(inbox) IN
       /\ inbox' = Tail(inbox)
       /\ had_error' = (had_error \/ (m.type = "frame" /\ m.image = "undecodable"))
       /\ IF m.type = "badjson"
          THEN /\ errors_sent' = errors_sent + 1
               /\ UNCHANGED <<pc, current, pongs>>
          ELSE IF m.type = "ping"
          THEN /\ pongs' = pongs + 1
               /\ UNCHANGED <<pc, current, errors_sent>>
          ELSE IF Decodable(m)
          THEN /\ pc' = "recognise"
               /\ current' = m
               /\ UNCHANGED <<pongs, errors_sent>>
          ELSE UNCHANGED <<pc, current, pongs, errors_sent>>
    /\ UNCHANGED <<session, close_code, session_recognized_students,
                   session_sighting_counts, temp_directory, newly_confirmed_students,
                   mark_index, detected_faces, faces_done, student_table,
                   attendance_records, now, last_created, arrived, qualifying_matches, mark_calls, reported, marked_days,
                   known_faces_cache, frame_updates, last_total,
                   response_failed>>
    /\ UNCHANGED <<conn_vars, user, disconnected, media_root, last_answered, other_vars>>

\* a face that reaches the counting code for identity s
Qualifies(f, s) ==
    /\ f.bbox
    /\ Truthy(f.student_id)
    /\ PassesThreshold(f.confidence)
    /\ ParseStudentId(f.student_id).ok
    /\ ParseStudentId(f.student_id).id = s

QualifyingIn(faces, n, s) == {i \in 1..n : Qualifies(faces[i], s)}

\* process_frame_for_recognition(original_img), run to its return.
\* save_ok: _save_temp_image gave a path; engine_ok: find_faces_in_image
\* returned (faces) instead of raising.
Recognise(save_ok, engine_ok, faces) ==
    /\ pc = "recognise"
    /\ LET found == IF save_ok /\ engine_ok THEN Limit(faces) ELSE <<>>
           st == ProcessFaces(found, LoopState(session_recognized_students,
                                               session_sighting_counts), student_table)
       IN
       /\ temp_directory' = (temp_directory \/ save_ok)
       /\ media_root' = (IF save_ok THEN media_root \cup {TempPath(channel_name)}
                         ELSE media_root)
       /\ faces_done' = st.done
       /\ session_recognized_students' = st.rec
       /\ session_sighting_counts' = st.cnt
       /\ newly_confirmed_students' = Returned(st)
       /\ mark_index' = 1
       /\ had_error' = (had_error \/ ~save_ok \/ ~engine_ok \/ st.raised)
       /\ qualifying_matches' =
            [s \in Students |-> qualifying_matches[s] + Cardinality(QualifyingIn(found, st.done, s))]
    /\ pc' = "mark"
    /\ UNCHANGED <<session, close_code, inbox, current, student_table, attendance_records,
                   detected_faces, now, last_created, arrived, mark_calls, reported, marked_days, pongs,
                   errors_sent, known_faces_cache, frame_updates, last_total,
                   response_failed>>
    /\ UNCHANGED <<conn_vars, user, disconnected, last_answered, other_vars>>

\* one pass of `for student_data in newly_confirmed_students:
\*     await self.mark_student_present(student_data['id'], self.course_id)`
MarkPresent ==
    /\ pc = "mark"
    /\ mark_index <= Len(newly_confirmed_students)
    /\ LET sid == newly_confirmed_students[mark_index]
           res == GetOrCreate(attendance_records, sid, course_id, now, student_table)
       IN
       /\ attendance_records' = res.rows
       /\ last_created' = res.created
       /\ mark_calls' = [mark_calls EXCEPT ![<<sid, course_id>>] = @ + 1]
       /\ marked_days' = marked_days \cup {<<sid, course_id, Today(now)>>}
       /\ had_error' = (had_error \/ (~res.created /\ res.rows = attendance_records
                                       /\ Matching(attendance_records, sid, course_id, Today(now)) = {}))
    /\ mark_index' = mark_index + 1
    /\ UNCHANGED <<session, close_code, session_recognized_students,
                   session_sighting_counts, temp_directory, inbox, pc,
                   newly_confirmed_students, detected_faces, faces_done, current,
                   student_table, now, arrived, qualifying_matches,
                   reported, pongs, errors_sent, known_faces_cache, frame_updates,
                   last_total, response_failed>>
    /\ UNCHANGED <<conn_vars, user, disconnected, media_root, last_answered, other_vars>>

Range(q) == {q[i] : i \in 1..Len(q)}

TotalRecognizedCount_less(rec) == Cardinality(rec) - 1

\* 'total_recognized_count': len(self.session_recognized_students)
TotalRecognizedCount(rec) == Cardinality(rec)

\* the rest of process_frame: cv2.imencode, then self.send(frame_update);
\* encode_ok = FALSE is an exception there, caught and logged at line 165.
SendUpdate(encode_ok) ==
    /\ pc = "mark"
    /\ mark_index > Len(newly_confirmed_students)
    /\ response_failed' = ~encode_ok
    /\ IF encode_ok
       THEN /\ frame_updates' = frame_updates + 1
            /\ reported' = [s \in Students |->
                              reported[s] + (IF s \in Range(newly_confirmed_students) THEN 1 ELSE 0)]
            /\ last_total' = TotalRecognizedCount(session_recognized_students)
            /\ last_answered' = current.seq
            /\ UNCHANGED had_error
       ELSE /\ had_error' = TRUE
            /\ UNCHANGED <<frame_updates, reported, last_total, last_answered>>
    /\ pc' = "idle"
    /\ current' = NoMessage
    /\ newly_confirmed_students' = <<>>
    /\ mark_index' = 1
    /\ faces_done' = 0
    /\ UNCHANGED <<session, close_code, detected_faces, session_recognized_students,
                   session_sighting_counts, temp_directory, inbox, student_table,
                   attendance_records, now, last_created, arrived, qualifying_matches, mark_calls, marked_days, pongs, errors_sent,
                   known_faces_cache>>
    /\ UNCHANGED <<conn_vars, user, disconnected, media_root, other_vars>>

DisconnectOutcome_unguarded(initialised, has_dir, discard_ok, rmtree_ok) ==
    IF ~initialised \/ ~discard_ok \/ (has_dir /\ ~rmtree_ok) THEN "raised" ELSE "clean"

\* how disconnect() ends.  initialised: connect() got past line 49, so the
\* attributes exist; without them cleanup_resources meets an AttributeError
\* at line 390, caught at 394.  discard_ok = FALSE: group_discard raises,
\* caught at 96, and cleanup_resources is not reached.  rmtree_ok = FALSE:
\* shutil.rmtree raises, caught at 394, and the three clear() are skipped.
DisconnectOutcome(initialised, has_dir, discard_ok, rmtree_ok) ==
    IF ~initialised THEN "cleanup_failed"
    ELSE IF ~discard_ok THEN "discard_failed"
    ELSE IF has_dir /\ ~rmtree_ok THEN "cleanup_failed"
    ELSE "clean"

\* disconnect(close_code) with cleanup_resources(), called when the client
\* goes away and after a close() of connect()
Disconnect(discard_ok, rmtree_ok) ==
    /\ session \in {"ready", "closed"}
    /\ disconnected = "no"
    /\ pc = "idle"
    /\ inbox = <<>>
    /\ session' = "closed"
    /\ LET has_dir == temp_directory /\ TempPath(channel_name) \in media_root
           outcome == DisconnectOutcome(accepted, has_dir, discard_ok, rmtree_ok)
       IN
       /\ disconnected' = outcome
       /\ group_joined' = (group_joined /\ ~(accepted /\ discard_ok))
       /\ IF outcome = "clean"
          THEN /\ media_root' = media_root \ {TempPath(channel_name)}
               /\ known_faces_cache' = {}
               /\ session_recognized_students' = {}
               /\ session_sighting_counts' = EmptyDict
          ELSE UNCHANGED <<media_root, known_faces_cache, session_recognized_students,
                           session_sighting_counts>>
    /\ UNCHANGED <<close_code, inbox, pc, newly_confirmed_students, mark_index,
                   detected_faces, faces_done, current, student_table, temp_directory,
                   attendance_records, now, last_created, arrived, qualifying_matches,
                   mark_calls, reported, marked_days, pongs,
                   errors_sent, frame_updates, accepted, session_ready_sent, failure>>
    /\ UNCHANGED <<frame_hist, user, last_answered, other_vars>>

\* a Student row is deleted through the REST API; its AttendanceRecord rows
\* go with it (on_delete=CASCADE)
DeleteStudent(s) ==
    /\ s \in student_table
    /\ student_table' = student_table \ {s}
    /\ attendance_records' = {r \in attendance_records : r.student # s}
    /\ UNCHANGED <<now, last_created, marked_days>>
    /\ UNCHANGED session_vars

FrameKinds == {k \in MessageKinds : k[1] = "frame"}

\* the three ways the recognition of a frame can go
RecogniseAny(answers) ==
    \/ \E fs \in answers : Recognise(TRUE, TRUE, fs)
    \/ Recognise(TRUE, FALSE, <<>>)
    \/ Recognise(FALSE, TRUE, <<>>)

\* One session whose client sends frames one at a time.
Next ==
    \/ \E a \in BOOLEAN, t \in BOOLEAN, u \in {{}, Students}, g \in ConnectRaises : Connect(a, t, u, g)
    \/ \E k \in FrameKinds : Arrive(k, 1, MaxFrames)
    \/ Receive
    \/ RecogniseAny(SessionFrameResults)
    \/ MarkPresent
    \/ \E e \in BOOLEAN : SendUpdate(e)
    \/ \E d \in BOOLEAN, r \in BOOLEAN : Disconnect(d, r)
    \/ \E s \in Students : DeleteStudent(s)

Spec == Init /\ [][Next]_vars

(* ------------- one frame, from every state a session can be in -------- *)
\* the pairs (confirmed set, counter dict) a session can hold
SessionStates ==
    UNION { { [rec |-> {s \in D : cnt[s] = SIGHTING_THRESHOLD}, cnt |-> cnt] :
              cnt \in [D -> 1..SIGHTING_THRESHOLD] } : D \in SUBSET Students }

InitFrame ==
    /\ session = "ready"
    /\ close_code = 0
    /\ \E st \in SessionStates :
          /\ session_recognized_students = st.rec
          /\ session_sighting_counts = st.cnt
    /\ known_faces_cache = Students
    /\ temp_directory \in BOOLEAN
    /\ inbox = <<>>
    /\ pc = "recognise"
    /\ newly_confirmed_students = <<>>
    /\ mark_index = 1
    /\ detected_faces \in FrameResults
    /\ faces_done = 0
    /\ current = Message("frame", "ok", FALSE, "idle", 1)
    /\ student_table \in SUBSET Students
    /\ attendance_records = {}
    /\ now = 0
    /\ last_created = FALSE
    /\ arrived = 1
    /\ qualifying_matches = Zero
    /\ mark_calls = [sc \in Students \X Courses |-> 0]
    /\ reported = Zero
    /\ marked_days = {}
    /\ pongs = 0
    /\ errors_sent = 0
    /\ frame_updates = 0
    /\ accepted = TRUE
    /\ group_joined = TRUE
    /\ session_ready_sent = 1
    /\ failure = "none"
    /\ had_error = FALSE
    /\ last_total = 0
    /\ response_failed = FALSE
    /\ user = "teacher"
    /\ disconnected = "no"
    /\ media_root = (IF temp_directory THEN {TempPath(channel_name)} ELSE {})
    /\ last_answered = 0
    /\ peer = NoPeer
    /\ callers = NoCallers

NextFrame ==
    \/ RecogniseAny({detected_faces})
    \/ MarkPresent
    \/ \E e \in BOOLEAN : SendUpdate(e)

SpecFrame == InitFrame /\ [][NextFrame]_vars

(* ------------------- mark_student_present on its own ------------------- *)
TotalCalls == LET sum[S \in SUBSET (Students \X Courses)] ==
                      IF S = {} THEN 0
                      ELSE LET x == CHOOSE y \in S : TRUE IN mark_calls[x] + sum[S \ {x}]
              IN sum[Students \X Courses]

\* mark_student_present(student_id, course_id), called directly
CallMark(s, c) ==
    /\ TotalCalls < MaxCalls
    /\ LET res == GetOrCreate(attendance_records, s, c, now, student_table) IN
       /\ attendance_records' = res.rows
       /\ last_created' = res.created
    /\ mark_calls' = [mark_calls EXCEPT ![<<s, c>>] = @ + 1]
    /\ marked_days' = marked_days \cup {<<s, c, Today(now)>>}
    /\ UNCHANGED <<session, close_code, session_recognized_students,
                   session_sighting_counts, temp_directory, inbox, pc,
                   newly_confirmed_students, mark_index, detected_faces, faces_done,
                   current, student_table, now, arrived, qualifying_matches, reported,
                   pongs, errors_sent, known_faces_cache, frame_updates>>
    /\ UNCHANGED <<conn_vars, frame_hist, user, disconnected, media_root,
                   last_answered, other_vars>>

\* time passes
Tick ==
    /\ now < MaxTime
    /\ now' = now + 1
    /\ UNCHANGED <<student_table, attendance_records, last_created, marked_days>>
    /\ UNCHANGED session_vars

NextMark ==
    \/ \E s \in Students, c \in Courses : CallMark(s, c)
    \/ Tick

SpecMark == Init /\ [][NextMark]_vars

(* ------------- a client that does not wait for the consumer ------------ *)
QueueFrameResults == {<<>>, <<Face(StrId(1), 90, TRUE)>>}

NextQueue ==
    \/ \E a \in BOOLEAN, t \in BOOLEAN, u \in {{}, Students}, g \in ConnectRaises : Connect(a, t, u, g)
    \/ \E k \in MessageKinds : Arrive(k, MaxInbox, MaxMsgs)
    \/ Receive
    \/ RecogniseAny(QueueFrameResults)
    \/ MarkPresent
    \/ \E e \in BOOLEAN : SendUpdate(e)
    \/ \E d \in BOOLEAN, r \in BOOLEAN : Disconnect(d, r)

SpecQueue == Init /\ [][NextQueue]_vars

(* ------------------------------ properties ----------------------------- *)
Occurrences(q, x) == Cardinality({i \in 1..Len(q) : q[i] = x})

\* the distance of a face, the pipeline's confidence being 1 - distance
Distance(f) == 100 - f.confidence

\* C1: while the session is open, an identity is in the confirmed set exactly
\* when SIGHTING_THRESHOLD or more qualifying matches for it have been
\* handled in the session: it enters in the step that handles the match
\* that reaches the threshold and is never there below it.
C1_ConfirmedAtThreshold ==
    session = "ready" =>
        \A s \in Students :
            s \in session_recognized_students <=> qualifying_matches[s] >= SIGHTING_THRESHOLD

C1_Witness ==
    /\ session = "ready"
    /\ \E s \in Students, t \in Students :
          /\ s \in session_recognized_students
          /\ qualifying_matches[s] = SIGHTING_THRESHOLD
          /\ qualifying_matches[t] \in 1..(SIGHTING_THRESHOLD - 1)
          /\ t \notin session_recognized_students

\* C2: when a frame has been handled, every identity of the confirmed set
\* has had mark_student_present invoked exactly once and has been listed in
\* newly_recognized of exactly one frame_update.
C2_OneEventPerConfirmation ==
    (session = "ready" /\ pc = "idle") =>
        \A s \in session_recognized_students :
            /\ mark_calls[<<s, course_id>>] = 1
            /\ reported[s] = 1

\* C3: for an identity already in the confirmed set no step of the open
\* session changes its sighting counter or adds it to the newly confirmed
\* list, and mark_student_present is invoked at most once for it.
C3_ConfirmedIsTerminal ==
    /\ [][\A s \in session_recognized_students :
            session' = "ready" =>
                /\ Get(session_sighting_counts', s) = Get(session_sighting_counts, s)
                /\ Occurrences(newly_confirmed_students', s)
                       <= Occurrences(newly_confirmed_students, s)]_vars
    /\ [](\A s \in Students : mark_calls[<<s, course_id>>] <= 1)

C3_Witness ==
    /\ session = "ready"
    /\ \E s \in session_recognized_students :
          /\ qualifying_matches[s] > SIGHTING_THRESHOLD
          /\ session_sighting_counts[s] = SIGHTING_THRESHOLD
          /\ mark_calls[<<s, course_id>>] = 1
          /\ reported[s] = 1

\* C4: a sighting counter rises by at most one per frame, and no identity
\* is confirmed before SIGHTING_THRESHOLD frames have been received.
C4_OneIncrementPerFrame ==
    /\ [][\A s \in Students :
            Get(session_sighting_counts', s) <= Get(session_sighting_counts, s) + 1]_vars
    /\ [](session_recognized_students # {} => arrived >= SIGHTING_THRESHOLD)

\* C5 as claimed: no identity is both a key of the counter dict and a member
\* of the confirmed set.
C5_DisjointAsClaimed ==
    DOMAIN session_sighting_counts \cap session_recognized_students = {}

\* C5 as amended: a confirmed identity stays a key of the counter dict, with
\* its count at SIGHTING_THRESHOLD, and every other key has a smaller count.
C5_ConfirmedKeptAtThreshold ==
    /\ \A s \in session_recognized_students :
          /\ s \in DOMAIN session_sighting_counts
          /\ session_sighting_counts[s] = SIGHTING_THRESHOLD
    /\ \A s \in DOMAIN session_sighting_counts \ session_recognized_students :
          session_sighting_counts[s] < SIGHTING_THRESHOLD

C5_Witness ==
    /\ session = "ready"
    /\ pc = "idle"
    /\ \E s \in session_recognized_students : qualifying_matches[s] > SIGHTING_THRESHOLD
    /\ \E t \in DOMAIN session_sighting_counts : t \notin session_recognized_students

RecognitionStep == pc = "recognise" /\ pc' = "mark"

\* C6: for a frame with one detected face, matched to an identity that is
\* not yet confirmed, the identity's counter is incremented if and only if
\* the distance is at most RECOGNITION_THRESHOLD.
C6_QualifyingIffWithinThreshold ==
    [][(RecognitionStep /\ faces_done' = 1 /\ Len(detected_faces) = 1) =>
          LET f == detected_faces[1]
              sid == ParseStudentId(f.student_id).id
          IN  (/\ f.bbox
               /\ Truthy(f.student_id)
               /\ ParseStudentId(f.student_id).ok
               /\ sid \notin session_recognized_students)
              => ((Distance(f) <= RECOGNITION_THRESHOLD)
                    <=> (Get(session_sighting_counts', sid)
                           = Get(session_sighting_counts, sid) + 1))]_vars

\* a face that names identity s with a distance within the threshold
MatchWithin(f, s) ==
    /\ Truthy(f.student_id)
    /\ ParseStudentId(f.student_id).ok
    /\ ParseStudentId(f.student_id).id = s
    /\ Distance(f) <= RECOGNITION_THRESHOLD

\* C7: a frame's faces that match no identity, or match one with a distance
\* above the threshold, change nothing: an identity for which the frame has
\* no match within the threshold keeps its counter and its confirmed status;
\* and no step of the frame's handling lowers or removes a counter.
C7_NonQualifyingChangesNothing ==
    /\ [][RecognitionStep =>
            \A s \in Students :
                (\A i \in 1..Len(detected_faces) : ~MatchWithin(detected_faces[i], s))
                => /\ Get(session_sighting_counts', s) = Get(session_sighting_counts, s)
                   /\ (s \in DOMAIN session_sighting_counts')
                          = (s \in DOMAIN session_sighting_counts)
                   /\ (s \in session_recognized_students')
                          = (s \in session_recognized_students)]_vars
    /\ [][\A s \in DOMAIN session_sighting_counts :
            /\ s \in DOMAIN session_sighting_counts'
            /\ session_sighting_counts'[s] >= session_sighting_counts[s]]_vars

C7_Witness ==
    /\ pc = "mark"
    /\ Len(detected_faces) >= 2
    /\ faces_done = Len(detected_faces)
    /\ \E i \in 1..Len(detected_faces) : ~Truthy(detected_faces[i].student_id)
    /\ \E i \in 1..Len(detected_faces) :
          /\ Truthy(detected_faces[i].student_id)
          /\ Distance(detected_faces[i]) > RECOGNITION_THRESHOLD
    /\ \A i \in 1..Len(detected_faces), s \in Students : ~MatchWithin(detected_faces[i], s)
    /\ DOMAIN session_sighting_counts # {}
    /\ session_recognized_students # {}

\* C8: for every (student, course, day) for which mark_student_present has
\* been called there is exactly one AttendanceRecord, and a call for a
\* (student, course) already marked that day creates nothing.
C8_MarkIsIdempotent ==
    /\ [](\A m \in marked_days :
            Cardinality(Matching(attendance_records, m[1], m[2], m[3])) = 1)
    /\ [][\A s \in Students, c \in Courses :
            (mark_calls'[<<s, c>>] > mark_calls[<<s, c>>] /\ <<s, c, Today(now)>> \in marked_days)
            => (~last_created' /\ attendance_records' = attendance_records)]_vars

C8_Witness ==
    \E s \in Students, c \in Courses :
        /\ mark_calls[<<s, c>>] >= 2
        /\ marked_days = {<<s, c, Today(now)>>}
        /\ Cardinality(Matching(attendance_records, s, c, Today(now))) = 1
        /\ ~last_created

FramesHeld ==
    Cardinality({i \in 1..Len(inbox) : inbox[i].type = "frame" /\ inbox[i].image = "ok"})
    + (IF pc = "idle" THEN 0 ELSE 1)

\* C9: a frame that arrives while an earlier frame is waiting or in hand is
\* never processed, and at no time is more than one unprocessed frame held.
C9_DropWhenBusy ==
    /\ pc # "idle" => ~current.late
    /\ FramesHeld <= 1

\* C10: recognition of a frame does not finish while a ping that arrived
\* during that recognition is still unanswered.
C10_PingAnsweredDuringRecognition ==
    [][RecognitionStep =>
         \A i \in 1..Len(inbox) : ~(inbox[i].type = "ping" /\ inbox[i].during = "recognise")]_vars

\* the recognition of the frame in hand has failed in this step
RecognitionFails == RecognitionStep /\ ~had_error /\ had_error'

\* C11: a frame whose recognition fails (the temp image cannot be saved, the
\* engine raises, an entry of its list or a student lookup raises) leaves the
\* sighting counters and the confirmed set exactly as they were before the
\* frame, and nothing is returned as newly confirmed for it.
C11_FailedFrameLeavesNoTrace ==
    [][RecognitionFails =>
          /\ session_sighting_counts' = session_sighting_counts
          /\ session_recognized_students' = session_recognized_students
          /\ newly_confirmed_students' = <<>>]_vars

\* C12: no step of the handling of a frame closes the session or sends an
\* error, whether or not it raises; and in an open session in which the
\* handling of a frame has raised, every qualifying match handled has been
\* counted up to the threshold, and an identity is confirmed exactly when its
\* qualifying matches have reached the threshold.
C12_FrameErrorsKeepSession ==
    /\ [][(pc # "idle" \/ (~had_error /\ had_error')) =>
             /\ session' = "ready"
             /\ close_code' = 0
             /\ errors_sent' = errors_sent]_vars
    /\ []((had_error /\ session = "ready") =>
             \A s \in Students :
                /\ Get(session_sighting_counts, s)
                      = (IF qualifying_matches[s] < SIGHTING_THRESHOLD
                         THEN qualifying_matches[s] ELSE SIGHTING_THRESHOLD)
                /\ (s \in session_recognized_students)
                      <=> (qualifying_matches[s] >= SIGHTING_THRESHOLD))

\* a frame confirms an identity after the handling of an earlier frame raised
C12_Witness ==
    /\ session = "ready"
    /\ had_error
    /\ pc = "mark"
    /\ newly_confirmed_students # <<>>

\* the handling of a frame that reached recognition ends in this step
FrameDone == pc = "mark" /\ pc' = "idle"

ConnectStep == session = "connecting" /\ session' # "connecting"

\* C14: when an authenticated caller's course has no identity with usable
\* reference data, connect() sends one error message and closes with 4004
\* without sending session_ready or joining the group; and a session closed
\* with 4004 has received no frame, sent no frame_update, counted nothing
\* and marked no attendance.
C14_NoIdentitiesFailsSetup ==
    /\ [][(ConnectStep /\ accepted' /\ known_faces_cache' = {}) =>
             /\ session' = "closed"
             /\ close_code' = 4004
             /\ errors_sent' = errors_sent + 1
             /\ session_ready_sent' = 0
             /\ ~group_joined']_vars
    /\ [](close_code = 4004 =>
             /\ session = "closed"
             /\ session_ready_sent = 0
             /\ ~group_joined
             /\ arrived = 0
             /\ pc = "idle"
             /\ frame_updates = 0
             /\ qualifying_matches = Zero
             /\ session_recognized_students = {}
             /\ attendance_records = {}
             /\ \A sc \in Students \X Courses : mark_calls[sc] = 0)

C14_Witness ==
    /\ session = "closed"
    /\ accepted
    /\ known_faces_cache = {}
    /\ close_code = 4004
    /\ errors_sent = 1
    /\ session_ready_sent = 0

\* C15: a session that failed to establish is closed with the code of the
\* class of its failure: 4001 for an anonymous caller, who is neither
\* accepted nor sent session_ready, 4004 for a failed setup, 4000 for an
\* unexpected failure; and only a failed establishment sets a close code.
C15_CloseCodeIdentifiesFailure ==
    /\ failure = "auth" =>
          (close_code = 4001 /\ ~accepted /\ session_ready_sent = 0 /\ errors_sent = 0)
    /\ failure = "setup" => (close_code = 4004 /\ accepted /\ session_ready_sent = 0)
    /\ failure = "unexpected" => (close_code = 4000 /\ accepted /\ session_ready_sent = 0)
    /\ failure # "none" => session = "closed"
    /\ close_code # 0 => failure # "none"

C15_Witness ==
    /\ session = "closed"
    /\ failure = "unexpected"
    /\ close_code = 4000
    /\ known_faces_cache # {}
    /\ ~group_joined

\* C16: session_ready is sent at most once, in a step that leaves a
\* non-empty known_faces_cache and before any frame_update; and a session
\* that has not sent session_ready has received no frame and sent no
\* frame_update.
C16_ReadyOnceBeforeResults ==
    /\ [](session_ready_sent <= 1)
    /\ [][session_ready_sent' # session_ready_sent =>
             /\ session_ready_sent' = session_ready_sent + 1
             /\ known_faces_cache' # {}
             /\ accepted'
             /\ frame_updates' = 0]_vars
    /\ [](session_ready_sent = 0 => (frame_updates = 0 /\ arrived = 0 /\ pc = "idle"))

C16_Witness ==
    /\ session_ready_sent = 1
    /\ known_faces_cache # {}
    /\ frame_updates >= 2

\* C17: no step between session_ready and disconnect removes an identity
\* from the confirmed set, and the total_recognized_count of a frame_update
\* is never below that of the frame_update before it.
C17_ConfirmationIrreversible ==
    /\ [][(session = "ready" /\ session' = "ready") =>
             session_recognized_students \subseteq session_recognized_students']_vars
    /\ [][(frame_updates' # frame_updates /\ frame_updates > 0) =>
             last_total' >= last_total]_vars

\* three frame_updates, the last one reporting two confirmed identities
C17_Witness ==
    /\ session = "ready"
    /\ frame_updates = 3
    /\ last_total = 2
    /\ session_recognized_students = Students

Min(a, b) == IF a < b THEN a ELSE b

Max(a, b) == IF a > b THEN a ELSE b

\* area of the intersection of two boxes (x, y, w, h)
Intersection(a, b) ==
    Max(0, Min(a[1] + a[3], b[1] + b[3]) - Max(a[1], b[1]))
    * Max(0, Min(a[2] + a[4], b[2] + b[4]) - Max(a[2], b[2]))

\* intersection-over-union of two boxes above pct hundredths
IoUExceeds(a, b, pct) ==
    100 * Intersection(a, b) > pct * (a[3] * a[4] + b[3] * b[4] - Intersection(a, b))

\* C18: in a frame of two faces, when the first confirms an identity and the
\* second, at a region whose IoU with the first's exceeds 0.7, matches
\* another identity, the second is skipped: that identity's counter and
\* confirmed status do not change.
C18_OverlapWithConfirmedSkipped ==
    [][(RecognitionStep /\ Len(detected_faces) = 2 /\ faces_done' = 2) =>
          LET f == detected_faces[1]
              g == detected_faces[2]
          IN  \A s \in Students, t \in Students :
                 (/\ s # t
                  /\ Qualifies(f, s)
                  /\ s \notin session_recognized_students
                  /\ s \in session_recognized_students'
                  /\ Qualifies(g, t)
                  /\ IoUExceeds(f.region, g.region, 70))
                 => /\ Get(session_sighting_counts', t) = Get(session_sighting_counts, t)
                    /\ (t \in session_recognized_students')
                          = (t \in session_recognized_students)]_vars

\* C19: a frame whose only face is narrower or lower than 100 pixels changes
\* no counter, confirms nobody and yields no newly confirmed identity.
C19_SmallRegionDiscarded ==
    [][(RecognitionStep /\ Len(detected_faces) = 1 /\ detected_faces[1].bbox
          /\ (detected_faces[1].region[3] < 100 \/ detected_faces[1].region[4] < 100)) =>
          /\ session_sighting_counts' = session_sighting_counts
          /\ session_recognized_students' = session_recognized_students
          /\ newly_confirmed_students' = <<>>]_vars

\* receive() takes a message that is no valid JSON, or a frame whose image
\* is empty or cannot be decoded
TransportError ==
    /\ inbox # <<>>
    /\ inbox' = Tail(inbox)
    /\ \/ Head(inbox).type = "badjson"
       \/ (Head(inbox).type = "frame" /\ Head(inbox).image \in {"empty", "undecodable"})

\* C20: handling a message that is no valid JSON, or a frame whose image is
\* empty or cannot be decoded, sends nothing to the client and leaves the
\* session open.
C20_TransportErrorsSilent ==
    [][TransportError =>
          /\ errors_sent' = errors_sent
          /\ frame_updates' = frame_updates
          /\ pongs' = pongs
          /\ session' = "ready"
          /\ close_code' = 0]_vars

\* C25: in a ready session every sighting counter is between 1 and
\* SIGHTING_THRESHOLD, and an identity is in the confirmed set exactly when
\* its counter is SIGHTING_THRESHOLD.
C25_CountersBounded ==
    session = "ready" =>
        /\ \A s \in DOMAIN session_sighting_counts :
              session_sighting_counts[s] \in 1..SIGHTING_THRESHOLD
        /\ \A s \in Students :
              (s \in session_recognized_students)
                 <=> (Get(session_sighting_counts, s) = SIGHTING_THRESHOLD)

\* one identity confirmed and met again, another part of the way
C25_Witness ==
    /\ session = "ready"
    /\ \E s \in Students, t \in Students :
          /\ s \in session_recognized_students
          /\ qualifying_matches[s] > SIGHTING_THRESHOLD
          /\ Get(session_sighting_counts, t) = SIGHTING_THRESHOLD - 1

\* C26: the total_recognized_count of every frame_update equals the number
\* of identities listed in newly_recognized of that and the earlier
\* frame_updates of the session.
C26_TotalEqualsReported ==
    [][frame_updates' # frame_updates =>
          last_total' = Cardinality({s \in Students : reported'[s] >= 1})]_vars

\* C27: an identity listed in newly_recognized of a frame_update has had
\* mark_student_present invoked for it and the session's course in an
\* earlier step; and mark_student_present is invoked only for the session's
\* course and for members of the confirmed set.
C27_PersistenceBeforeReport ==
    /\ [][\A s \in Students :
            reported'[s] > reported[s] => mark_calls[<<s, course_id>>] >= 1]_vars
    /\ [][\A s \in Students, c \in Courses :
            mark_calls'[<<s, c>>] > mark_calls[<<s, c>>] =>
                (c = course_id /\ s \in session_recognized_students)]_vars

\* a frame_update has just listed two identities, both marked before
C27_Witness ==
    /\ session = "ready"
    /\ pc = "idle"
    /\ \A s \in Students : reported[s] = 1 /\ mark_calls[<<s, course_id>>] = 1
    /\ Cardinality(attendance_records) = 2

\* C28: session_ready is sent, the group joined and the session ready only
\* when the user is the teacher of the course; a session of any other
\* authenticated user is closed without session_ready, holds no known
\* identity, receives no frame and marks no attendance.
C28_OnlyTeacherGetsReady ==
    /\ (session = "ready" \/ session_ready_sent > 0 \/ group_joined) => user = "teacher"
    /\ user = "other" =>
          /\ session = "closed"
          /\ close_code # 0
          /\ session_ready_sent = 0
          /\ known_faces_cache = {}
          /\ arrived = 0
          /\ attendance_records = {}
          /\ \A sc \in Students \X Courses : mark_calls[sc] = 0

C28_Witness ==
    /\ user = "other"
    /\ accepted
    /\ session = "closed"
    /\ errors_sent = 1
    /\ disconnected # "no"

\* receive() is handed a message in this step
Taken == Len(inbox') < Len(inbox)

\* C29: a message is handed to receive() only when no frame is in hand, it
\* is the oldest one waiting, and when it is a decodable frame it goes on to
\* recognition; waiting messages keep their arrival order behind the frame
\* in hand; frame_updates answer frames in arrival order; and the session
\* does not end while a message waits or a frame is in hand.
C29_FramesInArrivalOrder ==
    /\ [][Taken =>
             /\ pc = "idle"
             /\ inbox' = Tail(inbox)
             /\ Head(inbox).seq = arrived - Len(inbox) + 1
             /\ Decodable(Head(inbox)) => (pc' = "recognise" /\ current' = Head(inbox))]_vars
    /\ [](\A i \in 1..Len(inbox) :
             /\ inbox[i].seq = arrived - Len(inbox) + i
             /\ pc # "idle" => (last_answered < current.seq /\ current.seq < inbox[i].seq))
    /\ [][last_answered' # last_answered =>
             (last_answered' > last_answered /\ last_answered' = current.seq)]_vars
    /\ [][(session = "ready" /\ session' # "ready") => (inbox = <<>> /\ pc = "idle")]_vars

\* a frame that arrived while an earlier one was in hand is processed after
\* the earlier one was answered
C29_Witness ==
    /\ session = "ready"
    /\ pc = "mark"
    /\ current.late
    /\ current.during # "idle"
    /\ last_answered >= 1
    /\ last_answered < current.seq

\* C30: handling a message that is not a decodable frame ends at once and
\* changes neither the sighting counters nor the confirmed set nor
\* known_faces_cache; a ping is answered by one pong and nothing else gets
\* one; and known_faces_cache does not change while the session is ready.
C30_OtherMessagesChangeNothing ==
    /\ [][(Taken /\ (Head(inbox).type # "frame"
                       \/ Head(inbox).image \in {"empty", "undecodable"})) =>
             /\ pc' = "idle"
             /\ session_sighting_counts' = session_sighting_counts
             /\ session_recognized_students' = session_recognized_students
             /\ known_faces_cache' = known_faces_cache
             /\ frame_updates' = frame_updates
             /\ pongs' = pongs + (IF Head(inbox).type = "ping" THEN 1 ELSE 0)]_vars
    /\ [][pongs' # pongs => (Taken /\ Head(inbox).type = "ping")]_vars
    /\ [][(session = "ready" /\ session' = "ready") =>
             known_faces_cache' = known_faces_cache]_vars

\* a ping and a malformed message were handled in a session with a sighting
C30_Witness ==
    /\ session = "ready"
    /\ pc = "idle"
    /\ inbox = <<>>
    /\ pongs = 1
    /\ errors_sent = 1
    /\ DOMAIN session_sighting_counts # {}
    /\ known_faces_cache = Students

\* C23: disconnect() ends without raising from every state it is called in,
\* also for a connection rejected before its attributes were set and when
\* group_discard or the cleanup fails; it leaves the session closed and the
\* AttendanceRecord rows as they were.
C23_TeardownCompletes ==
    [][disconnected' # disconnected =>
          /\ disconnected' \in {"clean", "cleanup_failed", "discard_failed"}
          /\ session' = "closed"
          /\ attendance_records' = attendance_records]_vars

\* a session that marked attendance was torn down with a failure
C23_Witness ==
    /\ disconnected \in {"cleanup_failed", "discard_failed"}
    /\ session_recognized_students # {}
    /\ attendance_records # {}

(* --------------------- two sessions at the same time -------------------- *)
NewSessionCounts_shared(others) == others

\* self.session_sighting_counts: Dict[int, int] = {} (line 46): a new dict
\* for every consumer instance, whatever other instances hold
NewSessionCounts(others) == EmptyDict

\* connect() of the second consumer, for the same course and teacher
PeerConnect ==
    /\ peer.session = "none"
    /\ peer' = [peer EXCEPT !.session = "ready",
                            !.rec = {},
                            !.cnt = NewSessionCounts(session_sighting_counts),
                            !.cache = Students]
    /\ UNCHANGED <<student_table, attendance_records, now, last_created, marked_days,
                   session, close_code, session_recognized_students,
                   session_sighting_counts, temp_directory, inbox, pc,
                   newly_confirmed_students, mark_index, detected_faces, faces_done,
                   current, arrived, qualifying_matches, mark_calls, reported, pongs,
                   errors_sent, known_faces_cache, frame_updates, conn_vars, frame_hist,
                   user, disconnected, media_root, last_answered, callers>>

\* mark_student_present for every entry of a list, in order
RECURSIVE MarkAll(_, _, _, _)
MarkAll(rows, list, t, table) ==
    IF list = <<>> THEN rows
    ELSE MarkAll(GetOrCreate(rows, Head(list), course_id, t, table).rows, Tail(list), t, table)

\* process_frame() of the second consumer for one decodable frame
PeerFrame(save_ok, faces) ==
    /\ peer.session = "ready"
    /\ peer.frames < MaxFrames
    /\ LET found == IF save_ok THEN Limit(faces) ELSE <<>>
           st == ProcessFaces(found, LoopState(peer.rec, peer.cnt), student_table)
       IN
       /\ peer' = [peer EXCEPT
                     !.rec = st.rec,
                     !.cnt = st.cnt,
                     !.temp_directory = (@ \/ save_ok),
                     !.frames = @ + 1,
                     !.qualifying = [s \in Students |->
                                       @[s] + Cardinality(QualifyingIn(found, st.done, s))]]
       /\ media_root' = (IF save_ok THEN media_root \cup {TempPath(peer_channel_name)}
                         ELSE media_root)
       /\ attendance_records' = MarkAll(attendance_records, Returned(st), now, student_table)
       /\ marked_days' = marked_days \cup {<<s, course_id, Today(now)>> : s \in Range(Returned(st))}
    /\ UNCHANGED <<student_table, now, last_created,
                   session, close_code, session_recognized_students,
                   session_sighting_counts, temp_directory, inbox, pc,
                   newly_confirmed_students, mark_index, detected_faces, faces_done,
                   current, arrived, qualifying_matches, mark_calls, reported, pongs,
                   errors_sent, known_faces_cache, frame_updates, conn_vars, frame_hist,
                   user, disconnected, last_answered, callers>>

\* disconnect() of the second consumer
PeerDisconnect(discard_ok, rmtree_ok) ==
    /\ peer.session = "ready"
    /\ LET has_dir == peer.temp_directory /\ TempPath(peer_channel_name) \in media_root
           outcome == DisconnectOutcome(TRUE, has_dir, discard_ok, rmtree_ok)
       IN
       IF outcome = "clean"
       THEN /\ media_root' = media_root \ {TempPath(peer_channel_name)}
            /\ peer' = [peer EXCEPT !.session = "closed", !.rec = {}, !.cnt = EmptyDict,
                                    !.cache = {}]
       ELSE /\ peer' = [peer EXCEPT !.session = "closed"]
            /\ UNCHANGED media_root
    /\ UNCHANGED <<student_table, attendance_records, now, last_created, marked_days,
                   session, close_code, session_recognized_students,
                   session_sighting_counts, temp_directory, inbox, pc,
                   newly_confirmed_students, mark_index, detected_faces, faces_done,
                   current, arrived, qualifying_matches, mark_calls, reported, pongs,
                   errors_sent, known_faces_cache, frame_updates, conn_vars, frame_hist,
                   user, disconnected, last_answered, callers>>

NextPeers ==
    \/ \E a \in BOOLEAN, t \in BOOLEAN, u \in {{}, Students}, g \in ConnectRaises : Connect(a, t, u, g)
    \/ Arrive(<<"frame", "ok">>, 1, MaxFrames)
    \/ Receive
    \/ RecogniseAny(QueueFrameResults)
    \/ MarkPresent
    \/ \E e \in BOOLEAN : SendUpdate(e)
    \/ \E d \in BOOLEAN, r \in BOOLEAN : Disconnect(d, r)
    \/ PeerConnect
    \/ \E v \in BOOLEAN, fs \in QueueFrameResults : PeerFrame(v, fs)
    \/ \E d \in BOOLEAN, r \in BOOLEAN : PeerDisconnect(d, r)

SpecPeers == Init /\ [][NextPeers]_vars

\* the pipeline state of the first and of the second session
OwnState == <<session_recognized_students, session_sighting_counts, known_faces_cache>>

PeerState == <<peer.rec, peer.cnt, peer.cache>>

\* C21: with two sessions open for the same course, a step that changes one
\* session's counters, confirmed set or known identities leaves the other
\* session's unchanged; and in each session, while it is open, an identity
\* is confirmed exactly when that session's own frames have brought
\* SIGHTING_THRESHOLD qualifying matches for it.
C21_SessionsIsolated ==
    /\ [][PeerState' # PeerState => OwnState' = OwnState]_vars
    /\ [][OwnState' # OwnState => PeerState' = PeerState]_vars
    /\ [](session = "ready" =>
             \A s \in Students :
                (s \in session_recognized_students)
                   <=> (qualifying_matches[s] >= SIGHTING_THRESHOLD))
    /\ [](peer.session = "ready" =>
             \A s \in Students :
                /\ (s \in peer.rec) <=> (peer.qualifying[s] >= SIGHTING_THRESHOLD)
                /\ Get(peer.cnt, s) <= peer.qualifying[s])

\* both sessions open, an identity confirmed in the first and only sighted
\* in the second
C21_Witness ==
    /\ session = "ready"
    /\ peer.session = "ready"
    /\ \E s \in session_recognized_students :
          /\ s \notin peer.rec
          /\ Get(peer.cnt, s) \in 1..(SIGHTING_THRESHOLD - 1)

\* C22: the temporary directories of two sessions differ; the directory of
\* an open session that has saved a frame exists, whatever the other session
\* does; and after a disconnect without a cleanup failure the session's
\* directory is gone and its known identities, counters and confirmed set
\* are empty.
C22_TempDirOwnedAndRemoved ==
    /\ TempPath(channel_name) # TempPath(peer_channel_name)
    /\ (session = "ready" /\ temp_directory) => TempPath(channel_name) \in media_root
    /\ (peer.session = "ready" /\ peer.temp_directory)
          => TempPath(peer_channel_name) \in media_root
    /\ (disconnected \notin {"no", "cleanup_failed"}) =>
          /\ TempPath(channel_name) \notin media_root
          /\ known_faces_cache = {}
          /\ session_sighting_counts = EmptyDict
          /\ session_recognized_students = {}

(* ------------- get_or_create called from two places at once ------------- *)
\* the lookup of get_or_create (Django QuerySet.get_or_create: self.get(**kwargs))
\* by caller p, a session's mark_student_present or the mark_attendance
\* view; the defaults, with timestamp = timezone.now(), are already built
BeginGetOrCreate(p, s, c) ==
    /\ callers[p].pc = "idle"
    /\ TotalCalls < MaxCalls
    /\ s \in student_table
    /\ callers' = [callers EXCEPT ![p] =
                     [pc |-> IF Matching(attendance_records, s, c, Today(now)) = {}
                             THEN "insert" ELSE "idle",
                      student |-> s, course |-> c, t |-> now]]
    /\ mark_calls' = [mark_calls EXCEPT ![<<s, c>>] = @ + 1]
    /\ marked_days' = marked_days \cup {<<s, c, Today(now)>>}
    /\ UNCHANGED <<student_table, attendance_records, now, last_created,
                   session, close_code, session_recognized_students,
                   session_sighting_counts, temp_directory, inbox, pc,
                   newly_confirmed_students, mark_index, detected_faces, faces_done,
                   current, arrived, qualifying_matches, reported, pongs,
                   errors_sent, known_faces_cache, frame_updates, conn_vars, frame_hist,
                   user, disconnected, media_root, last_answered, peer>>

\* the insert of get_or_create (self.create(**params)) by caller p, after a
\* lookup that found nothing; a row with the same student, course and
\* timestamp makes it fail on unique_together, and the row is looked up again
EndGetOrCreate(p) ==
    /\ callers[p].pc = "insert"
    /\ LET s == callers[p].student
           c == callers[p].course
           t == callers[p].t
           clash == \E r \in attendance_records :
                       r.student = s /\ r.course = c /\ r.timestamp = t
       IN
       /\ attendance_records' =
            (IF clash \/ s \notin student_table THEN attendance_records
             ELSE attendance_records \cup {[student |-> s, course |-> c, timestamp |-> t]})
       /\ last_created' = ~(clash \/ s \notin student_table)
    /\ callers' = [callers EXCEPT ![p].pc = "idle"]
    /\ UNCHANGED <<student_table, now, marked_days, mark_calls,
                   session, close_code, session_recognized_students,
                   session_sighting_counts, temp_directory, inbox, pc,
                   newly_confirmed_students, mark_index, detected_faces, faces_done,
                   current, arrived, qualifying_matches, reported, pongs,
                   errors_sent, known_faces_cache, frame_updates, conn_vars, frame_hist,
                   user, disconnected, media_root, last_answered, peer>>

NextRace ==
    \/ \E p \in Callers, s \in Students, c \in Courses : BeginGetOrCreate(p, s, c)
    \/ \E p \in Callers : EndGetOrCreate(p)
    \/ Tick

SpecRace == Init /\ [][NextRace]_vars

\* C24: there is never more than one AttendanceRecord for a student, a
\* course and a calendar day.
C24_OneRecordPerDay ==
    \A s \in Students, c \in Courses, day \in 0..Today(MaxTime) :
        Cardinality(Matching(attendance_records, s, c, day)) <= 1

====
